---- MODULE Spec2Model ----
(***************************************************************************)
(* A model of bcbio/variation/vcfanno.py: running and organising variant   *)
(* file annotation with vcfanno.                                           *)
(*                                                                         *)
(* Strings are sequences of one-character strings, so that basename,       *)
(* splitext, find, startswith, endswith, split, strip and lower are        *)
(* computed character by character as Python computes them.  Python's None *)
(* is the one-element sequence None, whose element is no character.        *)
(***************************************************************************)
EXTENDS Integers, Sequences, FiniteSets, TLC

\* ------------------------------------------------------------------------
\* Bounds of the model
\* ------------------------------------------------------------------------

\* longest list of config fragments handed to run
MaxFrags == 2

\* how many times run is called on the same arguments
MaxCalls == 2

\* ------------------------------------------------------------------------
\* Python strings
\* ------------------------------------------------------------------------

None == <<"None">>

Truthy(x) == x # None /\ x # <<>>

\* the characters the model uses, in code point order
Chars == <<"\n", " ", "\"", "-", ".", "/", "0", "1", "2", "3", "7", "8", "9", "=",
           "A", "C", "G", "L", "N", "R", "S", "_",
           "a", "b", "c", "d", "e", "f", "g", "h", "i", "k", "l", "m", "n",
           "o", "p", "q", "r", "s", "t", "u", "v", "x", "y", "z">>

Ord(c) == CHOOSE i \in 1..Len(Chars) : Chars[i] = c

\* str < str
StrLess(a, b) ==
    \E i \in 1..(Len(b)) :
        /\ i <= Len(a) + 1
        /\ \A j \in 1..(i - 1) : a[j] = b[j]
        /\ (i = Len(a) + 1 \/ Ord(a[i]) < Ord(b[i]))

\* s[i:] with a 0-based i, 0 <= i
From(s, i) == SubSeq(s, i + 1, Len(s))

\* s[:i] with a 0-based i, 0 <= i
Upto(s, i) == SubSeq(s, 1, i)

startswith(s, p) == Len(p) <= Len(s) /\ SubSeq(s, 1, Len(p)) = p

endswith(s, p) == Len(p) <= Len(s) /\ SubSeq(s, Len(s) - Len(p) + 1, Len(s)) = p

\* s.find(sub): the lowest 0-based index of sub in s, -1 when there is none
find(s, sub) ==
    LET hits == {i \in 0..(Len(s) - Len(sub)) : SubSeq(s, i + 1, i + Len(sub)) = sub}
    IN  IF hits = {} THEN -1 ELSE CHOOSE i \in hits : \A j \in hits : i <= j

\* s.rfind(c) for a single character c
rfind(s, c) ==
    LET hits == {i \in 0..(Len(s) - 1) : s[i + 1] = c}
    IN  IF hits = {} THEN -1 ELSE CHOOSE i \in hits : \A j \in hits : i >= j

\* s.replace(c, "") for a single character c
RECURSIVE remove(_, _)
remove(s, c) ==
    IF s = <<>> THEN <<>>
    ELSE IF Head(s) = c THEN remove(Tail(s), c)
    ELSE <<Head(s)>> \o remove(Tail(s), c)

Whitespace == {" ", "\n"}

RECURSIVE lstrip(_)
lstrip(s) == IF s # <<>> /\ Head(s) \in Whitespace THEN lstrip(Tail(s)) ELSE s

RECURSIVE rstrip(_)
rstrip(s) ==
    IF s # <<>> /\ s[Len(s)] \in Whitespace THEN rstrip(Upto(s, Len(s) - 1)) ELSE s

strip(s) == lstrip(rstrip(s))

\* s.split("=")[-1]
split_last(s, c) == From(s, rfind(s, c) + 1)

lower_char(c) ==
    CASE c = "A" -> "a" [] c = "G" -> "g" [] c = "L" -> "l" [] c = "N" -> "n"
      [] c = "R" -> "r" [] c = "S" -> "s" [] OTHER -> c

lower(s) == [i \in 1..Len(s) |-> lower_char(s[i])]

\* ------------------------------------------------------------------------
\* os.path and bcbio.utils
\* ------------------------------------------------------------------------

basename(p) == From(p, rfind(p, "/") + 1)

\* os.path.dirname: the head up to the last slash, its trailing slashes
\* stripped unless it is all slashes
RECURSIVE rstrip_slash(_)
rstrip_slash(s) ==
    IF s # <<>> /\ s[Len(s)] = "/" THEN rstrip_slash(Upto(s, Len(s) - 1)) ELSE s

dirname_of(head, stripped) == IF head # <<>> /\ stripped # <<>> THEN stripped ELSE head

dirname_head(head) == dirname_of(head, rstrip_slash(head))

dirname(p) == dirname_head(Upto(p, rfind(p, "/") + 1))

\* os.path.splitext: split at the last dot of the last component, leading
\* dots of that component not counting
splitext_at(p, sepIndex, dotIndex) ==
    IF dotIndex > sepIndex
         /\ \E k \in (sepIndex + 1)..(dotIndex - 1) : p[k + 1] # "."
    THEN <<Upto(p, dotIndex), From(p, dotIndex)>>
    ELSE <<p, <<>> >>

splitext(p) == splitext_at(p, rfind(p, "/"), rfind(p, "."))

ZipExts == {<<".", "g", "z">>, <<".", "b", "z", "2">>, <<".", "z", "i", "p">>}

\* utils.splitext_plus: splitext allowing for zipped extensions
add_ext(base_ext, ext) == <<base_ext[1], base_ext[2] \o ext>>

zipped_ext(base_ext) ==
    IF base_ext[2] \in ZipExts THEN add_ext(splitext(base_ext[1]), base_ext[2])
    ELSE base_ext

splitext_plus(f) == zipped_ext(splitext(f))

\* ------------------------------------------------------------------------
\* Files of the model: paths and their contents (a file is a sequence of
\* lines, a line a string)
\* ------------------------------------------------------------------------

Tag == <<"-", "a", "n", "n", "o", "t", "a", "t", "e", "d", "-">>
DotVcf == <<".", "v", "c", "f">>
DotGz == <<".", "g", "z">>
DotConf == <<".", "c", "o", "n", "f">>
DotLua == <<".", "l", "u", "a">>

\* input variant files: s.vcf, s.vcf.gz, t.vcf and the already annotated
\* s-annotated-g.vcf.gz
VcfPlain == <<"s">> \o DotVcf
VcfGz == <<"s">> \o DotVcf \o DotGz
VcfOther == <<"t">> \o DotVcf
VcfTagged == <<"s">> \o Tag \o <<"g">> \o DotVcf \o DotGz

\* config fragments: a/g.conf, b/g.conf (the same basename in another
\* directory), a/h.conf, and a/n.conf, which is not on disk
ConfG == <<"a", "/", "g">> \o DotConf
ConfG2 == <<"b", "/", "g">> \o DotConf
ConfH == <<"a", "/", "h">> \o DotConf
ConfMissing == <<"a", "/", "n">> \o DotConf

\* script fragments: a/g.lua, and a/n.lua, which is not on disk
LuaG == <<"a", "/", "g">> \o DotLua
LuaMissing == <<"a", "/", "n">> \o DotLua

\* annotation resources: /d/e.gz and /k/e.gz are on disk, and so are /d/xe.gz
\* and the relative e.gz; /z/e.gz is not
ResD == <<"/", "d", "/", "e">> \o DotGz
ResK == <<"/", "k", "/", "e">> \o DotGz
ResX == <<"/", "d", "/", "x", "e">> \o DotGz
ResBare == <<"e">> \o DotGz
ResGone == <<"/", "z", "/", "e">> \o DotGz

LineFile == <<"f", "i", "l", "e", "=", "\"", "e", ".", "g", "z", "\"", "\n">>
LineOps == <<"o", "p", "s", "=", "x", "\n">>
LineOps2 == <<"o", "p", "s", "=", "y", "\n">>
LineFilex == <<"f", "i", "l", "e", "x", "=", "e", ".", "g", "z", "\n">>
LineLua == <<"x", "=", "1", "\n">>
LineVcf == <<"v", "c", "f", "\n">>

\* what the engine's pipe leaves in its target: all of the annotated file,
\* or a part of it
Annotated == <<LineVcf, <<"a", "n", "n", "\n">> >>
Partial == <<LineVcf>>

DiskFiles == {ConfG, ConfG2, ConfH, LuaG, ResD, ResK, ResX, ResBare}

\* the disk before run is called on the inputs vcfs
InitialFS(vcfs) ==
    [f \in DiskFiles \cup vcfs |->
        CASE f = ConfG -> <<LineFile, LineOps>>
          [] f = ConfG2 -> <<LineOps2>>
          [] f = ConfH -> <<LineFilex>>
          [] f = LuaG -> <<LineLua>>
          [] f = VcfTagged -> Annotated
          [] OTHER -> <<LineVcf>>]

\* the file system with path f holding content
WriteFile(files, f, content) ==
    [g \in DOMAIN files \cup {f} |-> IF g = f THEN content ELSE files[g]]

RemoveFile(files, f) == [g \in DOMAIN files \ {f} |-> files[g]]

exists(files, f) == f \in DOMAIN files

\* utils.file_exists
file_exists(files, f) == Truthy(f) /\ exists(files, f)

\* ------------------------------------------------------------------------
\* The sample record as _find_file walks it: a tree of mappings, sequences
\* and scalars.  A mapping holds its values in iteration order.
\* ------------------------------------------------------------------------

StrNode(v) == [kind |-> "str", val |-> v, items |-> <<>>]
NumNode == [kind |-> "num", val |-> <<>>, items |-> <<>>]
ListNode(xs) == [kind |-> "list", val |-> <<>>, items |-> xs]
DictNode(xs) == [kind |-> "dict", val |-> <<>>, items |-> xs]

BuildName == <<"h", "g", "1", "9">>

\* one existing path named e.gz, after one that is not on disk
TreeOne ==
    DictNode(<<StrNode(BuildName),
               ListNode(<<NumNode, StrNode(ResGone), StrNode(ResD)>>)>>)
\* no existing path named e.gz
TreeNone ==
    DictNode(<<StrNode(ResX), ListNode(<<StrNode(ResGone)>>), NumNode>>)
\* e.gz only as a relative name without a directory
TreeBare == DictNode(<<StrNode(BuildName), StrNode(ResBare)>>)
\* two existing paths named e.gz
TreeTwo == DictNode(<<DictNode(<<StrNode(ResK)>>), StrNode(ResD)>>)

Trees == {TreeOne, TreeNone, TreeBare, TreeTwo}

\* ------------------------------------------------------------------------
\* Sorting the fragment lists (run, lines 23-24)
\* ------------------------------------------------------------------------

\* key=lambda x: os.path.basename(x) if x else x
sort_key(x) == IF Truthy(x) THEN basename(x) ELSE x

\* the order of two keys: None sorts before every string
KeyLess(a, b) ==
    IF a = None THEN b # None
    ELSE IF b = None THEN FALSE
    ELSE StrLess(a, b)

\* x put into the sorted list t behind every element whose key is not
\* greater: list.sort is stable
RECURSIVE insert_sorted(_, _)
insert_sorted(t, x) ==
    IF t = <<>> THEN <<x>>
    ELSE IF KeyLess(sort_key(x), sort_key(Head(t))) THEN <<x>> \o t
    ELSE <<Head(t)>> \o insert_sorted(Tail(t), x)

sort_skipped(fns) == fns

RECURSIVE sort_fns(_)
sort_fns(fns) ==
    IF fns = <<>> THEN <<>>
    ELSE insert_sorted(sort_fns(Upto(fns, Len(fns) - 1)), fns[Len(fns)])

\* ------------------------------------------------------------------------
\* _fill_file_path and its _find_file (lines 66-85)
\* ------------------------------------------------------------------------

is_match_unchecked(files, xs, target) ==
    xs.kind = "str" /\ endswith(xs.val, <<"/">> \o target)

\* isinstance(xs, basestring) and os.path.exists(xs) and
\* xs.endswith("/%s" % target)
is_match(files, xs, target) ==
    xs.kind = "str" /\ exists(files, xs.val) /\ endswith(xs.val, <<"/">> \o target)

RECURSIVE _find_file(_, _, _)
RECURSIVE find_first(_, _, _)

\* the loop of a mapping's values or a sequence's elements: the first
\* truthy result, None when the loop runs out
RECURSIVE find_next(_, _, _, _)

find_first(files, items, target) ==
    IF items = <<>> THEN None
    ELSE find_next(files, items, target, _find_file(files, Head(items), target))

\* "if f: return f", else on to the next element
find_next(files, items, target, f) ==
    IF Truthy(f) THEN f ELSE find_first(files, Tail(items), target)

_find_file(files, xs, target) ==
    IF xs.kind \in {"dict", "list"} THEN find_first(files, xs.items, target)
    ELSE IF is_match(files, xs, target) THEN xs.val
    ELSE None

FileOpen == <<"f", "i", "l", "e", "=", "\"">>
FileClose == <<"\"", "\n">>

\* the line rewritten, or the failed assertion of line 84
\* lines 84-85
filled(line, orig_file, full_file) ==
    [orig_file |-> orig_file,
     full_file |-> full_file,
     err |-> IF Truthy(full_file) THEN "" ELSE "AssertionError",
     line |-> IF Truthy(full_file) THEN FileOpen \o full_file \o FileClose
              ELSE line]

\* line 83
fill_target(files, line, data, orig_file) ==
    filled(line, orig_file, _find_file(files, data.tree, orig_file))

\* line 82
_fill_file_path(files, line, data) ==
    fill_target(files, line, data,
                basename(strip(remove(split_last(line, "="), "\""))))

\* ------------------------------------------------------------------------
\* _combine_files (lines 45-64)
\* ------------------------------------------------------------------------

FilePrefix == <<"f", "i", "l", "e">>

\* line 60: the lines handed to _fill_file_path
wants_fill(fill_paths, line) == fill_paths /\ startswith(line, FilePrefix)

\* what is written, the error that ended the loop, and the lookups made
\* (line, target, result), with one more line in front
with_line(line, looks, rest) ==
    [out |-> <<line>> \o rest.out, err |-> rest.err,
     lookups |-> looks \o rest.lookups]

lookup_of(line, r) == [line |-> line, target |-> r.orig_file, result |-> r.full_file]

RECURSIVE copy_lines(_, _, _, _)
RECURSIVE copy_filled(_, _, _, _, _)

\* the loop of lines 59-62 over one fragment's lines
copy_lines(files, lines, data, fill_paths) ==
    IF lines = <<>> THEN [out |-> <<>>, err |-> "", lookups |-> <<>>]
    ELSE IF wants_fill(fill_paths, Head(lines))
    THEN copy_filled(files, lines, data, fill_paths,
                     _fill_file_path(files, Head(lines), data))
    ELSE with_line(Head(lines), <<>>,
                   copy_lines(files, Tail(lines), data, fill_paths))

\* lines 61-62 with the result r of _fill_file_path: the failed assertion
\* ends the loop
copy_filled(files, lines, data, fill_paths, r) ==
    IF r.err # ""
    THEN [out |-> <<>>, err |-> r.err, lookups |-> <<lookup_of(Head(lines), r)>>]
    ELSE with_line(r.line, <<lookup_of(Head(lines), r)>>,
                   copy_lines(files, Tail(lines), data, fill_paths))

BlankLines == <<"\n", "\n">>

with_fragment(r, rest) ==
    [out |-> r.out \o <<BlankLines>> \o rest.out, err |-> rest.err,
     lookups |-> r.lookups \o rest.lookups]

RECURSIVE copy_fragments(_, _, _, _)
RECURSIVE copy_rest(_, _, _, _, _)

\* the loop of lines 57-63 over the fragments; open() of a fragment that is
\* not on disk raises
copy_fragments(files, orig_files, data, fill_paths) ==
    IF orig_files = <<>> THEN [out |-> <<>>, err |-> "", lookups |-> <<>>]
    ELSE IF ~exists(files, Head(orig_files))
    THEN [out |-> <<>>, err |-> "IOError", lookups |-> <<>>]
    ELSE copy_rest(files, orig_files, data, fill_paths,
                   copy_lines(files, files[Head(orig_files)], data, fill_paths))

\* line 63 after the lines r of the first fragment, and on to the next
copy_rest(files, orig_files, data, fill_paths, r) ==
    IF r.err # "" THEN r
    ELSE with_fragment(r, copy_fragments(files, Tail(orig_files), data, fill_paths))

existing_unfiltered(files, orig_files) == SelectSeq(orig_files, Truthy)

\* line 51: [x for x in orig_files if x and utils.file_exists(x)]
existing_files(files, orig_files) ==
    SelectSeq(orig_files, LAMBDA x : Truthy(x) /\ file_exists(files, x))

Combine == <<"-", "c", "o", "m", "b", "i", "n", "e">>

combine_path_shared(base_out_file, first) == Combine \o splitext_plus(first)[2]

\* lines 54-55
combine_path(base_out_file, first) ==
    splitext_plus(base_out_file)[1] \o Combine \o splitext_plus(first)[2]

\* lines 56-64 with the fragments copied: what is returned, the file
\* system afterwards, the error raised, the fragments concatenated, the
\* lookups made and the paths opened for writing
combined(files, kept, out_file, r) ==
    [ret |-> IF r.err = "" THEN out_file ELSE None,
     files |-> WriteFile(files, out_file, r.out),
     err |-> r.err,
     frags |-> kept,
     lookups |-> r.lookups,
     wrote |-> {out_file}]

\* lines 52-64 with the fragments kept
combine_kept(files, kept, base_out_file, data, fill_paths) ==
    IF kept = <<>>
    THEN [ret |-> None, files |-> files, err |-> "", frags |-> <<>>,
          lookups |-> <<>>, wrote |-> {}]
    ELSE combined(files, kept, combine_path(base_out_file, kept[1]),
                  copy_fragments(files, kept, data, fill_paths))

_combine_files(files, orig_files, base_out_file, data, fill_paths) ==
    combine_kept(files, existing_files(files, orig_files), base_out_file, data,
                 fill_paths)

\* ------------------------------------------------------------------------
\* State
\* ------------------------------------------------------------------------

VARIABLES
    fs,      \* the file system: path -> content
    proc,    \* each invocation of run: its arguments, locals and position
    sel      \* the call of is_human or find_annotations under check

vars == <<fs, proc, sel>>

\* ------------------------------------------------------------------------
\* run (lines 16-43)
\* ------------------------------------------------------------------------

VcfGzExt == DotVcf \o DotGz

\* line 25
annotated_ext(conf_fns) == Tag \o splitext_plus(basename(conf_fns[1]))[1]

\* lines 26-29
output_file(vcf, ext) ==
    IF find(vcf, ext) > 0 THEN vcf ELSE splitext_plus(vcf)[1] \o ext \o VcfGzExt

needs_run_always(files, out_file) == TRUE

\* line 30
needs_run(files, out_file) == ~file_exists(files, out_file)

\* file_transaction: the temporary path the scoped write hands out for
\* out_file, in a tx directory beside it
tx_in(dir, name) ==
    (IF dir = <<>> THEN <<>> ELSE dir \o <<"/">>) \o <<"t", "x", "/">> \o name

tx_path(out_file) == tx_in(dirname(out_file), basename(out_file))

\* line 33: fill_paths = basepath is None
conf_fill_paths(basepath) == basepath = None

LuaFlag == <<"-", "l", "u", "a", " ">>
BasePathFlag == <<"-", "b", "a", "s", "e", "-", "p", "a", "t", "h", " ">>
SedFilter ==
    <<"s", "e", "d", " ", "-", "e", " ", "s", "/", "N", "=", "A", "/", "N", "=",
      "1", "/", "g", " ">>
Program == <<"v", "c", "f", "a", "n", "n", "o">>

\* lines 35-40: the command, part by part
build_cmd(files, vcf, conffn, luafn, basepath, decomposed, data, target) ==
    [vcfanno |-> Program,
     cores |-> data.cores,
     luaflag |-> IF Truthy(luafn) /\ file_exists(files, luafn)
                 THEN LuaFlag \o luafn ELSE <<>>,
     basepathflag |-> IF Truthy(basepath) THEN BasePathFlag \o basepath ELSE <<>>,
     conffn |-> conffn,
     vcf |-> vcf,
     post_ann |-> IF decomposed THEN SedFilter ELSE <<>>,
     target |-> target]

NoCmd ==
    [vcfanno |-> <<>>, cores |-> 0, luaflag |-> <<>>, basepathflag |-> <<>>,
     conffn |-> None, vcf |-> <<>>, post_ann |-> <<>>, target |-> <<>>]

engine_target_direct(out_file, tx_out_file) == out_file

\* line 40: the pipe ends in "> {tx_out_file}"
engine_target(out_file, tx_out_file) == tx_out_file

\* do.run: how the engine's pipe can end.  It ends well only when it is
\* handed a config and an input it can read.
engine_outcomes(files, cmd) ==
    {"nonzero", "missing"}
        \cup (IF Truthy(cmd.conffn) /\ exists(files, cmd.conffn)
                   /\ exists(files, cmd.vcf)
              THEN {"ok"} ELSE {})

\* vcfutils.bgzip_and_index: the path of the compressed and indexed file
bgzip_and_index(out_file) == out_file

NoResult ==
    [ret |-> None, err |-> "", frags |-> <<>>, lookups |-> <<>>, wrote |-> {},
     called |-> FALSE, fill_paths |-> FALSE]

\* what a call of _combine_files left for the invocation to remember
result_of(r, fill_paths) ==
    [ret |-> r.ret, err |-> r.err, frags |-> r.frags, lookups |-> r.lookups,
     wrote |-> r.wrote, called |-> TRUE, fill_paths |-> fill_paths]

\* how the call before this one ended
NoPrev == [done |-> FALSE, ok |-> FALSE, ret |-> None, engine |-> 0]

\* an invocation before it starts
NewProc(vcf, conf_fns, lua_fns, data, basepath, decomposed) ==
    [pc |-> "NotStarted", calls |-> 1,
     vcf |-> vcf, conf_fns |-> conf_fns, lua_fns |-> lua_fns, data |-> data,
     basepath |-> basepath, decomposed |-> decomposed,
     conf_in |-> conf_fns,
     out_file |-> None, tx_out_file |-> None, conffn |-> None, luafn |-> None,
     cmd |-> NoCmd, ret |-> None, err |-> "",
     existed |-> FALSE, conf_res |-> NoResult, lua_res |-> NoResult,
     engine |-> 0, outcome |-> "", indexed |-> FALSE, wrote |-> {},
     prev |-> NoPrev]

\* lines 30-32 with the output named: look for it, and enter the scoped
\* write if it is not there
start_named(p, conf_fns, lua_fns, out_file) ==
    proc' = [proc EXCEPT
        ![p].conf_fns = conf_fns,
        ![p].lua_fns = lua_fns,
        ![p].out_file = out_file,
        ![p].existed = file_exists(fs, out_file),
        ![p].tx_out_file = IF needs_run(fs, out_file) THEN tx_path(out_file) ELSE None,
        ![p].pc = IF needs_run(fs, out_file) THEN "Merging" ELSE "Indexing"]

\* lines 25-29 with the lists sorted; conf_fns[0] of an empty list raises
start_sorted(p, conf_fns, lua_fns) ==
    IF conf_fns = <<>>
    THEN proc' = [proc EXCEPT ![p].pc = "Failed", ![p].err = "IndexError",
                              ![p].lua_fns = lua_fns]
    ELSE start_named(p, conf_fns, lua_fns,
                     output_file(proc[p].vcf, annotated_ext(conf_fns)))

\* lines 23-32: sort both lists, name the output, look for it
Start(p) ==
    /\ proc[p].pc = "NotStarted"
    /\ start_sorted(p, sort_fns(proc[p].conf_fns), sort_fns(proc[p].lua_fns))
    /\ UNCHANGED <<fs, sel>>

\* the file system after a call of _combine_files inside the scoped write:
\* an error removes the temporary file on its way out of run
after_combine(p, r) ==
    IF r.err = "" THEN r.files ELSE RemoveFile(r.files, proc[p].tx_out_file)

merged_conf(p, fill_paths, r) ==
    /\ fs' = after_combine(p, r)
    /\ proc' = [proc EXCEPT
            ![p].conffn = r.ret,
            ![p].conf_res = result_of(r, fill_paths),
            ![p].wrote = @ \cup r.wrote,
            ![p].err = r.err,
            ![p].pc = IF r.err = "" THEN "MergingScripts" ELSE "Failed"]

merge_conf(p, fill_paths) ==
    merged_conf(p, fill_paths,
                _combine_files(fs, proc[p].conf_fns, proc[p].out_file,
                               proc[p].data, fill_paths))

\* line 33
MergeConf(p) ==
    /\ proc[p].pc = "Merging"
    /\ merge_conf(p, conf_fill_paths(proc[p].basepath))
    /\ UNCHANGED sel

merged_lua(p, r) ==
    /\ fs' = after_combine(p, r)
    /\ proc' = [proc EXCEPT
            ![p].luafn = r.ret,
            ![p].lua_res = result_of(r, FALSE),
            ![p].wrote = @ \cup r.wrote,
            ![p].err = r.err,
            ![p].pc = IF r.err = "" THEN "Executing" ELSE "Failed"]

\* line 34
MergeLua(p) ==
    /\ proc[p].pc = "MergingScripts"
    /\ merged_lua(p, _combine_files(fs, proc[p].lua_fns, proc[p].out_file,
                                    proc[p].data, FALSE))
    /\ UNCHANGED sel

\* line 42: do.run ends well and leaves the annotated file in its target,
\* or fails, and the scoped write removes the temporary file
do_run(p, cmd, outcome) ==
    /\ fs' = CASE outcome = "ok" -> WriteFile(fs, cmd.target, Annotated)
               [] outcome = "nonzero" ->
                    RemoveFile(WriteFile(fs, cmd.target, Partial),
                               proc[p].tx_out_file)
               [] OTHER -> RemoveFile(fs, proc[p].tx_out_file)
    /\ proc' = [proc EXCEPT
            ![p].cmd = cmd,
            ![p].engine = @ + 1,
            ![p].outcome = outcome,
            ![p].wrote = IF outcome = "missing" THEN @ ELSE @ \cup {cmd.target},
            ![p].err = IF outcome = "ok" THEN "" ELSE "CalledProcessError",
            ![p].pc = IF outcome = "ok" THEN "Committing" ELSE "Failed"]

execute(p, cmd) == \E outcome \in engine_outcomes(fs, cmd) : do_run(p, cmd, outcome)

\* lines 35-42: build the command and run it
Execute(p) ==
    /\ proc[p].pc = "Executing"
    /\ execute(p, build_cmd(fs, proc[p].vcf, proc[p].conffn, proc[p].luafn,
                            proc[p].basepath, proc[p].decomposed, proc[p].data,
                            engine_target(proc[p].out_file, proc[p].tx_out_file)))
    /\ UNCHANGED sel

\* the end of the scoped write of line 32: the temporary file, if it is
\* there, becomes out_file
Commit(p) ==
    /\ proc[p].pc = "Committing"
    /\ IF exists(fs, proc[p].tx_out_file)
       THEN /\ fs' = RemoveFile(WriteFile(fs, proc[p].out_file,
                                          fs[proc[p].tx_out_file]),
                                proc[p].tx_out_file)
            /\ proc' = [proc EXCEPT ![p].pc = "Indexing",
                                    ![p].wrote = @ \cup {proc[p].out_file}]
       ELSE /\ fs' = fs
            /\ proc' = [proc EXCEPT ![p].pc = "Indexing"]
    /\ UNCHANGED sel

\* line 43
Index(p) ==
    /\ proc[p].pc = "Indexing"
    /\ proc' = [proc EXCEPT ![p].ret = bgzip_and_index(proc[p].out_file),
                            ![p].indexed = TRUE,
                            ![p].pc = "Done"]
    /\ UNCHANGED <<fs, sel>>

\* the caller calls run again with the arguments of the call that ended;
\* the lists stay as that call sorted them
CallAgain(p) ==
    /\ proc[p].pc \in {"Done", "Failed"}
    /\ proc[p].calls < MaxCalls
    /\ proc' = [proc EXCEPT ![p] =
            [NewProc(proc[p].vcf, proc[p].conf_fns, proc[p].lua_fns, proc[p].data,
                     proc[p].basepath, proc[p].decomposed)
                EXCEPT !.calls = proc[p].calls + 1,
                       !.conf_in = proc[p].conf_in,
                       !.prev = [done |-> TRUE, ok |-> proc[p].pc = "Done",
                                 ret |-> proc[p].ret,
                                 engine |-> proc[p].engine]]]
    /\ UNCHANGED <<fs, sel>>

\* ------------------------------------------------------------------------
\* is_human (lines 153-174)
\* ------------------------------------------------------------------------

GL == <<"G", "L">>
LowerGl == <<"_", "g", "l">>
B37 == <<"3", "7">>
B38 == <<"3", "8">>
Hg19 == <<"h", "g", "1", "9">>
GRCh37 == <<"G", "R", "C", "h", "3", "7">>
Hg38 == <<"h", "g", "3", "8">>
Mm10 == <<"m", "m", "1", "0">>

\* contigs: 1; GL1, an alternate scaffold by its GRCh37 name; c_gl1, the
\* same by its hg19 name; GL9, which no naming map knows
Contig1 == <<"1">>
ContigGL1 == <<"G", "L", "1">>
ContigGl1 == <<"c", "_", "g", "l", "1">>
ContigGL9 == <<"G", "L", "9">>

\* naming.GMAP: the contig names each build's naming map knows
GMAP(build) ==
    CASE build = Hg19 -> {ContigGl1}
      [] build = GRCh37 -> {ContigGL1}
      [] OTHER -> {}

\* x in xs, for a list xs
in_list(x, xs) == \E i \in 1..Len(xs) : xs[i] = x

\* None where a list of strings is expected
NoList == <<None>>

\* not builds
no_builds(builds) == builds = NoList \/ builds = <<>>

\* lines 156-161
build37_contig(name) ==
    /\ (startswith(name, GL) \/ find(name, LowerGl) >= 0)
    /\ (name \in GMAP(Hg19) \/ name \in GMAP(GRCh37))

has_build37_contigs(data) ==
    \E i \in 1..Len(data.contigs) : build37_contig(data.contigs[i])

checks_38_always(builds) == TRUE

\* line 170
checks_38(builds) == no_builds(builds) \/ in_list(B38, builds)

\* line 164
checks_37(builds) == no_builds(builds) \/ in_list(B37, builds)

is_human(data, builds) ==
    IF no_builds(builds) /\ data.alias_human THEN TRUE
    ELSE IF checks_37(builds)
            /\ (in_list(data.genome_build, <<Hg19, GRCh37>>)
                \/ has_build37_contigs(data))
    THEN TRUE
    ELSE IF checks_38(builds) /\ in_list(data.genome_build, <<Hg38>>) THEN TRUE
    ELSE FALSE

\* ------------------------------------------------------------------------
\* find_annotations and the default profiles (lines 87-151)
\* ------------------------------------------------------------------------

Gemini == <<"g", "e", "m", "i", "n", "i">>
Somatic == <<"s", "o", "m", "a", "t", "i", "c">>
Rnaedit == <<"r", "n", "a", "e", "d", "i", "t">>
RnaSeq == <<"r", "n", "a", "-", "s", "e", "q">>

\* lines 134-140
annotate_gemini(files, data) ==
    Truthy(data.exac) /\ exists(files, data.exac)

somatic_unpaired(files, data) ==
    is_human(data, NoList) /\ Truthy(data.cosmic) /\ exists(files, data.cosmic)

\* lines 142-151
_annotate_somatic(files, data) ==
    /\ is_human(data, NoList)
    /\ data.paired
    /\ Truthy(data.cosmic) /\ exists(files, data.cosmic)

\* lines 123-132
_default_conf_files(files, data) ==
    IF Truthy(data.variantcaller)
    THEN (IF annotate_gemini(files, data) THEN <<Gemini>> ELSE <<>>)
         \o (IF _annotate_somatic(files, data) THEN <<Somatic>> ELSE <<>>)
         \o (IF find(lower(data.analysis), RnaSeq) >= 0 THEN <<Rnaedit>> ELSE <<>>)
    ELSE <<>>

ConfigVcfanno ==
    <<"/", "c", "o", "n", "f", "i", "g", "/", "v", "c", "f", "a", "n", "n", "o">>

\* lines 104-105, for a normalised absolute ref_file: the config/vcfanno
\* directory beside the directory of the reference file
annodir(ref_file) == dirname(dirname(ref_file)) \o ConfigVcfanno

\* lines 106-120 for one conf_file: the paths it adds to out
\* lines 111-120
resolved(files, conffn, luafn) ==
    IF ~file_exists(files, conffn) THEN <<>>
    ELSE <<conffn>> \o (IF exists(files, luafn) THEN <<luafn>> ELSE <<>>)

resolve_at(files, conffn) == resolved(files, conffn, splitext_plus(conffn)[1] \o DotLua)

resolve_conf(files, dir, conf_file) ==
    resolve_at(files, IF file_exists(files, conf_file) THEN conf_file
                      ELSE dir \o <<"/">> \o conf_file \o DotConf)

RECURSIVE resolve_all(_, _, _)
resolve_all(files, dir, conf_files) ==
    IF conf_files = <<>> THEN <<>>
    ELSE resolve_conf(files, dir, Head(conf_files))
            \o resolve_all(files, dir, Tail(conf_files))

\* lines 98-100: the profiles, the sample's own or else the defaults
chosen_conf_files(files, data) ==
    IF data.vcfanno # <<>> THEN data.vcfanno ELSE _default_conf_files(files, data)

find_annotations(files, data) ==
    resolve_all(files, annodir(data.ref_file), chosen_conf_files(files, data))

\* the files of the selection's world
RefFile == <<"/", "r", "/", "s", "/", "x", ".", "f", "a">>
AnnoDir == <<"/", "r">> \o ConfigVcfanno
GeminiConf == AnnoDir \o <<"/">> \o Gemini \o DotConf
GeminiLua == AnnoDir \o <<"/">> \o Gemini \o DotLua
SomaticConf == AnnoDir \o <<"/">> \o Somatic \o DotConf
CosmicD == <<"/", "d", "/", "c">> \o DotGz
CosmicGone == <<"/", "z", "/", "c">> \o DotGz

SelectFS ==
    [f \in {RefFile, GeminiConf, GeminiLua, SomaticConf, ResD, CosmicD, ConfG}
        |-> <<LineVcf>>]

Gatk == <<"g", "a", "t", "k">>
Variant2 == <<"v", "a", "r", "i", "a", "n", "t", "2">>
RNASeq == <<"R", "N", "A", "-", "s", "e", "q">>

\* the sample records the selection is checked on
SelectData ==
    [variantcaller : {None, Gatk},
     analysis : {Variant2, RNASeq, RnaSeq},
     genome_build : {GRCh37, Hg38, Mm10},
     alias_human : BOOLEAN,
     contigs : {<<Contig1>>, <<Contig1, ContigGL1>>, <<ContigGl1>>, <<ContigGL9>>},
     paired : BOOLEAN,
     exac : {None, ResD, ResGone},
     cosmic : {None, CosmicD, CosmicGone},
     vcfanno : {<<>>, <<Somatic>>, <<ConfG, Rnaedit>>},
     ref_file : {RefFile}]

BuildFilters == {NoList, <<B37>>, <<B38>>}

NoSel == [call |-> "off"]

NewSel(data, builds) ==
    [call |-> "none", data |-> data, builds |-> builds, human |-> FALSE,
     conf_files |-> <<>>, out |-> <<>>]

CallIsHuman ==
    /\ sel.call = "none"
    /\ sel' = [sel EXCEPT !.call = "is_human",
                          !.human = is_human(sel.data, sel.builds)]
    /\ UNCHANGED <<fs, proc>>

CallFindAnnotations ==
    /\ sel.call = "none"
    /\ sel' = [sel EXCEPT !.call = "find_annotations",
                          !.conf_files = chosen_conf_files(fs, sel.data),
                          !.out = find_annotations(fs, sel.data)]
    /\ UNCHANGED <<fs, proc>>

\* ------------------------------------------------------------------------
\* Specifications
\* ------------------------------------------------------------------------

ConfFiles == {ConfG, ConfG2, ConfH, ConfMissing}
ConfLists == UNION {[1..n -> ConfFiles] : n \in 0..MaxFrags}
LuaLists == {<<>>, <<LuaG>>, <<LuaMissing, <<>> >>}
BasePath == <<"/", "d">>
BasePaths == {None, <<>>, BasePath}
RunData == [tree : Trees, cores : {2}]

\* the arguments run is called with
RunInputs ==
    {NewProc(vcf, conf_fns, lua_fns, data, basepath, decomposed) :
        vcf \in {VcfPlain, VcfGz, VcfTagged}, conf_fns \in ConfLists,
        lua_fns \in LuaLists, data \in RunData, basepath \in BasePaths,
        decomposed \in BOOLEAN}

\* one caller, calling run and calling it again
Init ==
    /\ proc \in [{1} -> RunInputs]
    /\ fs = InitialFS({proc[1].vcf})
    /\ sel = NoSel

Next ==
    \/ \E p \in DOMAIN proc : Start(p)
    \/ \E p \in DOMAIN proc : MergeConf(p)
    \/ \E p \in DOMAIN proc : MergeLua(p)
    \/ \E p \in DOMAIN proc : Execute(p)
    \/ \E p \in DOMAIN proc : Commit(p)
    \/ \E p \in DOMAIN proc : Index(p)
    \/ \E p \in DOMAIN proc : CallAgain(p)

Spec == Init /\ [][Next]_vars

\* two pipeline stages calling run at the same time, each once
ConcInputs ==
    {NewProc(vcf, conf_fns, lua_fns, [tree |-> TreeOne, cores |-> 2], None, FALSE) :
        vcf \in {VcfPlain, VcfGz, VcfOther}, conf_fns \in {<<ConfG>>, <<ConfH>>},
        lua_fns \in {<<>>, <<LuaG>>}}

InitConc ==
    /\ proc \in [{1, 2} -> ConcInputs]
    /\ fs = InitialFS({proc[1].vcf, proc[2].vcf})
    /\ sel = NoSel

NextConc ==
    \/ \E p \in DOMAIN proc : Start(p)
    \/ \E p \in DOMAIN proc : MergeConf(p)
    \/ \E p \in DOMAIN proc : MergeLua(p)
    \/ \E p \in DOMAIN proc : Execute(p)
    \/ \E p \in DOMAIN proc : Commit(p)
    \/ \E p \in DOMAIN proc : Index(p)

SpecConc == InitConc /\ [][NextConc]_vars

\* the selection of profiles and the build predicate, each called once on
\* a sample record
InitSelect ==
    /\ fs = SelectFS
    /\ proc = <<>>
    /\ sel \in {NewSel(data, builds) : data \in SelectData, builds \in BuildFilters}

NextSelect == CallIsHuman \/ CallFindAnnotations

SpecSelect == InitSelect /\ [][NextSelect]_vars

\* ------------------------------------------------------------------------
\* Properties
\* ------------------------------------------------------------------------

InScopedWrite == {"Merging", "MergingScripts", "Executing", "Committing"}

\* C1: once a call of run has returned, a call with the same input and
\* fragments returns the same path and neither merges nor runs the engine.
C1_Idempotent ==
    \A p \in DOMAIN proc :
        (proc[p].prev.done /\ proc[p].prev.ok) =>
            /\ ~proc[p].conf_res.called
            /\ ~proc[p].lua_res.called
            /\ proc[p].engine = 0
            /\ proc[p].pc \notin InScopedWrite \cup {"Failed"}
            /\ (proc[p].pc = "Done" => proc[p].ret = proc[p].prev.ret)

\* the second call has returned, after a first call that ran the engine
C1_Witness ==
    \E p \in DOMAIN proc :
        /\ proc[p].prev.ok /\ proc[p].prev.engine = 1
        /\ proc[p].pc = "Done" /\ proc[p].ret = proc[p].prev.ret

\* C2: in a run whose target was not there at the start, a failure inside
\* the scoped write ends the run Failed with no index step and no file at
\* the output path; the output path holds a file only once the engine has
\* succeeded, and then the whole file.
C2_NoPartialOutput ==
    \A p \in DOMAIN proc :
        (proc[p].out_file # None /\ ~proc[p].existed) =>
            /\ (proc[p].err # "" => proc[p].pc = "Failed")
            /\ (proc[p].pc = "Failed" =>
                    /\ ~exists(fs, proc[p].out_file)
                    /\ ~proc[p].indexed
                    /\ proc[p].ret = None)
            /\ (exists(fs, proc[p].out_file) =>
                    /\ proc[p].outcome = "ok"
                    /\ proc[p].pc \in {"Indexing", "Done"}
                    /\ fs[proc[p].out_file] = Annotated)

\* the engine has exited non-zero in a run whose target was not there
C2_Witness ==
    \E p \in DOMAIN proc :
        /\ proc[p].pc = "Failed" /\ proc[p].outcome = "nonzero"
        /\ ~proc[p].existed /\ proc[p].conf_res.wrote # {}

\* C3 as claimed: two runs on different input paths write disjoint sets of
\* paths.
C3_DisjointForDifferentInputs ==
    \A p, q \in DOMAIN proc :
        (p # q /\ proc[p].vcf # proc[q].vcf) => proc[p].wrote \cap proc[q].wrote = {}

\* the output path without its extension
OutStem(p) == splitext_plus(proc[p].out_file)[1]

\* C3 as amended: two runs whose output paths differ once the extension is
\* stripped write disjoint sets of paths.
C3_DisjointForDifferentOutputs ==
    \A p, q \in DOMAIN proc :
        (/\ p # q
         /\ proc[p].out_file # None /\ proc[q].out_file # None
         /\ OutStem(p) # OutStem(q))
            => proc[p].wrote \cap proc[q].wrote = {}

\* two runs with different output stems have both written their combined
\* config, combined script, temporary and final files
C3_Witness ==
    \E p, q \in DOMAIN proc :
        /\ p # q
        /\ proc[p].pc = "Done" /\ proc[q].pc = "Done"
        /\ OutStem(p) # OutStem(q)
        /\ Cardinality(proc[p].wrote) = 4 /\ Cardinality(proc[q].wrote) = 4

\* the lists that hold the elements of fns in another order
Reorderings(fns) ==
    {[i \in 1..Len(fns) |-> fns[f[i]]] : f \in Permutations(1..Len(fns))}

\* what run merges for the config fragments fns: the fragments, in order,
\* and the path of the combined file
merge_of_sorted(vcf, sorted, kept) ==
    [frags |-> kept,
     wrote |-> IF kept = <<>> THEN {}
               ELSE {combine_path(output_file(vcf, annotated_ext(sorted)), kept[1])}]

merge_of_list(vcf, sorted) == merge_of_sorted(vcf, sorted, existing_files(fs, sorted))

MergeOf(vcf, fns) == merge_of_list(vcf, sort_fns(fns))

Merged(p) == [frags |-> proc[p].conf_res.frags, wrote |-> proc[p].conf_res.wrote]

\* C4 as claimed: the combined configuration is the same for every order
\* of the fragment list.
C4_AnyOrderSameMerge ==
    \A p \in DOMAIN proc :
        proc[p].conf_res.called =>
            \A fns \in Reorderings(proc[p].conf_in) :
                MergeOf(proc[p].vcf, fns) = Merged(p)

DistinctBasenames(fns) ==
    \A i, j \in 1..Len(fns) : i # j => basename(fns[i]) # basename(fns[j])

\* C4 as amended: the fragments are concatenated in an order sorted by
\* basename, and for a list of fragments with pairwise different basenames
\* the combined configuration is the same for every order of the list.
C4_DistinctBasenamesSameMerge ==
    \A p \in DOMAIN proc :
        proc[p].conf_res.called =>
            /\ \A i, j \in 1..Len(proc[p].conf_res.frags) :
                    i < j => ~StrLess(basename(proc[p].conf_res.frags[j]),
                                      basename(proc[p].conf_res.frags[i]))
            /\ DistinctBasenames(proc[p].conf_in) =>
                    \A fns \in Reorderings(proc[p].conf_in) :
                        MergeOf(proc[p].vcf, fns) = Merged(p)

\* two fragments handed over out of order have been merged
C4_Witness ==
    \E p \in DOMAIN proc :
        /\ proc[p].conf_res.called
        /\ DistinctBasenames(proc[p].conf_in)
        /\ Len(proc[p].conf_res.frags) = 2
        /\ proc[p].conf_res.frags # proc[p].conf_in

\* C5: in a run that reaches the engine, a base path handed over means
\* the config is merged without filling paths and the command carries
\* -base-path <path>; none means the config is merged with paths filled and
\* the command carries no -base-path; scripts are never filled.
C5_BasePathHandling ==
    \A p \in DOMAIN proc :
        proc[p].engine > 0 =>
            /\ ~proc[p].lua_res.fill_paths
            /\ (proc[p].basepath # None =>
                    /\ ~proc[p].conf_res.fill_paths
                    /\ proc[p].cmd.basepathflag = BasePathFlag \o proc[p].basepath)
            /\ (proc[p].basepath = None =>
                    /\ proc[p].conf_res.fill_paths
                    /\ proc[p].cmd.basepathflag = <<>>)

\* a line that assigns the key file
file_key(line, eq) == eq >= 0 /\ strip(Upto(line, eq)) = FilePrefix

IsFileAssignment(line) == file_key(line, find(line, <<"=">>))

RECURSIVE LinesOf(_)
LinesOf(frags) ==
    IF frags = <<>> THEN <<>>
    ELSE fs[Head(frags)] \o <<BlankLines>> \o LinesOf(Tail(frags))

same_unless_file(read, written) ==
    /\ Len(read) = Len(written)
    /\ \A i \in 1..Len(read) : ~IsFileAssignment(read[i]) => written[i] = read[i]

\* C6: with fill_paths on, a line that is not a file= assignment is
\* written as it was read, and no lookup is made for it.
C6_OtherLinesUnchanged ==
    \A p \in DOMAIN proc :
        (proc[p].conf_res.called /\ proc[p].conf_res.fill_paths) =>
            /\ \A i \in 1..Len(proc[p].conf_res.lookups) :
                    IsFileAssignment(proc[p].conf_res.lookups[i].line)
            /\ proc[p].conf_res.ret # None =>
                    same_unless_file(LinesOf(proc[p].conf_res.frags),
                                     fs[proc[p].conf_res.ret])

OnDisk(path) == Truthy(path) /\ exists(fs, path)

IsRnaSeq(data) == find(lower(data.analysis), RnaSeq) >= 0

DefaultsChosen == sel.call = "find_annotations" /\ sel.data.vcfanno = <<>>

\* C7 as claimed: with no profiles named by the sample, somatic is chosen
\* exactly for a human, paired sample with cosmic on disk; gemini exactly
\* with a variant caller and exac on disk; rnaedit exactly with a variant
\* caller and an RNA-seq analysis.
C7_DecisionTable ==
    DefaultsChosen =>
        /\ in_list(Somatic, sel.conf_files) <=>
                (/\ is_human(sel.data, NoList)
                 /\ sel.data.paired
                 /\ OnDisk(sel.data.cosmic))
        /\ in_list(Gemini, sel.conf_files) <=>
                (Truthy(sel.data.variantcaller) /\ OnDisk(sel.data.exac))
        /\ in_list(Rnaedit, sel.conf_files) <=>
                (Truthy(sel.data.variantcaller) /\ IsRnaSeq(sel.data))

\* C7 as amended: somatic, like the other two, is chosen only with a
\* variant caller configured.
C7_DecisionTableWithCaller ==
    DefaultsChosen =>
        /\ in_list(Somatic, sel.conf_files) <=>
                (/\ Truthy(sel.data.variantcaller)
                 /\ is_human(sel.data, NoList)
                 /\ sel.data.paired
                 /\ OnDisk(sel.data.cosmic))
        /\ in_list(Gemini, sel.conf_files) <=>
                (Truthy(sel.data.variantcaller) /\ OnDisk(sel.data.exac))
        /\ in_list(Rnaedit, sel.conf_files) <=>
                (Truthy(sel.data.variantcaller) /\ IsRnaSeq(sel.data))

\* all three profiles were chosen for a sample that names none
C7_Witness == DefaultsChosen /\ sel.conf_files = <<Gemini, Somatic, Rnaedit>>

\* every fragment list handed to _combine_files, with what came of it
Merges(p) ==
    {m \in {[fns |-> proc[p].conf_fns, res |-> proc[p].conf_res],
            [fns |-> proc[p].lua_fns, res |-> proc[p].lua_res]} : m.res.called}

NoneSurvives(fns) == \A i \in 1..Len(fns) : ~OnDisk(fns[i])

\* C8: _combine_files returns None and writes nothing when the list is
\* empty or holds only empty entries and paths that are not on disk; it
\* writes a combined file only with at least one existing fragment in it.
C8_AbsentWritesNothing ==
    \A p \in DOMAIN proc : \A m \in Merges(p) :
        /\ NoneSurvives(m.fns) =>
                m.res.ret = None /\ m.res.wrote = {} /\ m.res.err = ""
        /\ m.res.wrote # {} =>
                /\ m.res.frags # <<>>
                /\ \A i \in 1..Len(m.res.frags) : OnDisk(m.res.frags[i])

\* the scripts, an empty entry and a path not on disk, came to nothing
C8_Witness ==
    \E p \in DOMAIN proc :
        /\ proc[p].lua_res.called
        /\ Len(proc[p].lua_fns) = 2 /\ NoneSurvives(proc[p].lua_fns)
        /\ proc[p].luafn = None /\ proc[p].pc = "Executing"

DefaultFilter == sel.builds = NoList

\* C9 as claimed: GRCh37 is human and mm10 is not under the default
\* filter, and hg38 is human only with no filter or one that includes 38,
\* whatever else the sample record holds.
C9_BuildPredicate ==
    sel.call = "is_human" =>
        /\ (DefaultFilter /\ sel.data.genome_build = GRCh37) => sel.human
        /\ (DefaultFilter /\ sel.data.genome_build = Mm10) => ~sel.human
        /\ (sel.data.genome_build = Hg38 /\ sel.human) =>
                (DefaultFilter \/ in_list(B38, sel.builds))

\* C9 as amended: mm10 is not human under the default filter unless the
\* record carries the human alias or the reference has a build 37 contig;
\* hg38 is human with no filter or one that includes 38, and with a filter
\* of 37 alone only when the reference has a build 37 contig.
C9_BuildPredicateUnlessMarked ==
    sel.call = "is_human" =>
        /\ (DefaultFilter /\ sel.data.genome_build = GRCh37) => sel.human
        /\ (DefaultFilter /\ sel.data.genome_build = Mm10) =>
                (sel.human <=> (sel.data.alias_human \/ has_build37_contigs(sel.data)))
        /\ sel.data.genome_build = Hg38 =>
                (sel.human <=>
                    \/ DefaultFilter
                    \/ in_list(B38, sel.builds)
                    \/ (in_list(B37, sel.builds) /\ has_build37_contigs(sel.data)))

\* hg38 was found not human under a filter of 37 alone
C9_Witness ==
    /\ sel.call = "is_human"
    /\ sel.data.genome_build = Hg38 /\ sel.builds = <<B37>>
    /\ ~sel.human

\* the strings of a tree
RECURSIVE TreeStrings(_)
TreeStrings(xs) ==
    IF xs.kind = "str" THEN {xs.val}
    ELSE UNION {TreeStrings(xs.items[i]) : i \in 1..Len(xs.items)}

NamedLike(tree, target) ==
    {x \in TreeStrings(tree) : exists(fs, x) /\ basename(x) = target}

EndingWith(tree, target) ==
    {x \in TreeStrings(tree) : exists(fs, x) /\ endswith(x, <<"/">> \o target)}

Lookups(p) == {proc[p].conf_res.lookups[i] : i \in 1..Len(proc[p].conf_res.lookups)}

\* C10 as claimed: a lookup returns the one existing path of the tree
\* whose basename is the target, and with no such path in the tree the
\* assertion fails and run fails with it.
C10_LookupByBasename ==
    \A p \in DOMAIN proc : \A l \in Lookups(p) :
        /\ Cardinality(NamedLike(proc[p].data.tree, l.target)) = 1 =>
                l.result \in NamedLike(proc[p].data.tree, l.target)
        /\ NamedLike(proc[p].data.tree, l.target) = {} =>
                /\ l.result = None
                /\ proc[p].pc = "Failed" /\ proc[p].err = "AssertionError"

\* C10 as amended: the paths that count are the existing ones that end
\* with a slash and the target.
C10_LookupAtSeparator ==
    \A p \in DOMAIN proc : \A l \in Lookups(p) :
        /\ Cardinality(EndingWith(proc[p].data.tree, l.target)) = 1 =>
                l.result \in EndingWith(proc[p].data.tree, l.target)
        /\ EndingWith(proc[p].data.tree, l.target) = {} =>
                /\ l.result = None
                /\ proc[p].pc = "Failed" /\ proc[p].err = "AssertionError"
                /\ proc[p].ret = None /\ ~exists(fs, proc[p].out_file)

\* a lookup found nothing in a tree that holds the name only as a path not
\* on disk and as the tail of a longer name, and run failed
C10_Witness ==
    \E p \in DOMAIN proc : \E l \in Lookups(p) :
        /\ proc[p].data.tree = TreeNone
        /\ l.result = None
        /\ proc[p].pc = "Failed" /\ proc[p].err = "AssertionError"

====
